---------------------------- MODULE Spec2Model ----------------------------
(* RiskyPathEnv (gym_minigrid/envs/risky.py): a walled grid room with lava,  *)
(* spiky and goal tiles, a four-action agent, slip and wall rebound, and a   *)
(* configurable reward specification.  Cells are <<x, y>> pairs; rewards are *)
(* integers; probabilities and random draws are percentages.                 *)
EXTENDS Integers, Sequences, FiniteSets, TLC

VARIABLES
    width, height,          \* grid dimensions (self.width, self.height)
    grid,                   \* self.grid: cell -> tag, "none" for an empty cell
    agent_pos, agent_dir,   \* self.agent_pos, self.agent_dir
    step_count, max_steps,  \* self.step_count, self.max_steps
    agent_start_pos, goal_positions, lava_positions,
    spiky_active, spiky_positions,
    reward_spec, slip_proba, wall_rebound,
    show_agent_dir,         \* self.show_agent_dir
    Grid_show_agent_dir,    \* the flag Grid.set_show_agent_dir sets on the
                            \* Grid class, one for all environments
    other,                  \* a second environment of the same process
    outcome                 \* the last call: its arguments, the position it
                            \* started from, the draws it made, and what
                            \* it returned or raised

vars == << width, height, grid, agent_pos, agent_dir, step_count, max_steps,
           agent_start_pos, goal_positions, lava_positions, spiky_active,
           spiky_positions, reward_spec, slip_proba, wall_rebound,
           show_agent_dir, Grid_show_agent_dir, other, outcome >>

cfgvars == << width, height, max_steps, agent_start_pos, goal_positions,
              lava_positions, spiky_active, spiky_positions, reward_spec,
              slip_proba, wall_rebound, show_agent_dir >>

-----------------------------------------------------------------------------
(* Bounds of the model and constants of the program.                         *)

MinSize == 6            \* assert width >= 6 and height >= 6
MaxSize == 7            \* largest width and height explored
MaxSteps == 3           \* the max_steps every explored environment is given

\* An optional position list: Python's None, or a list of <<x, y>> pairs.
None == [none |-> TRUE, list |-> << >>]
Some(positions) == [none |-> FALSE, list |-> positions]

\* The actions of RiskyPathEnv.Actions.
west == 0
north == 1
east == 2
south == 3
Actions == {west, north, east, south}

\* DEFAULT_REWARDS, and a specification whose values are all distinct.
DEFAULT_REWARDS ==
    [step_penalty |-> 0, goal_reward |-> 1, absorbing_states |-> FALSE,
     absorbing_reward_goal |-> 0, absorbing_reward_lava |-> -1,
     risky_tile_reward |-> 0, lava_reward |-> -1]

DistinctRewards(absorbing) ==
    [step_penalty |-> -1, goal_reward |-> 20, absorbing_states |-> absorbing,
     absorbing_reward_goal |-> 7, absorbing_reward_lava |-> -9,
     risky_tile_reward |-> -3, lava_reward |-> -30]

-----------------------------------------------------------------------------
(* The grid of gym_minigrid.minigrid, as risky.py uses it.                   *)

Cells(w, h) == (0 .. w - 1) \X (0 .. h - 1)

InGrid(w, h, p) == p[1] >= 0 /\ p[1] < w /\ p[2] >= 0 /\ p[2] < h

OnRing(w, h, p) == p[1] = 0 \/ p[1] = w - 1 \/ p[2] = 0 \/ p[2] = h - 1

\* WorldObj.can_overlap: every tile but a wall can be stood on.
can_overlap(tag) == tag \in {"goal", "lava", "spiky_floor"}

\* A movement test that lets the agent onto every cell, walls included.
OpenAnyCell(tag) == TRUE

\* cell is None or cell.can_overlap()
Open(tag) == tag = "none" \/ can_overlap(tag)

\* DIR_TO_VEC: 0 east, 1 south, 2 west, 3 north.
DIR_TO_VEC(d) ==
    CASE d = 0 -> << 1, 0 >>
      [] d = 1 -> << 0, 1 >>
      [] d = 2 -> << -1, 0 >>
      [] d = 3 -> << 0, -1 >>

Add(p, v) == << p[1] + v[1], p[2] + v[2] >>
Sub(p, v) == << p[1] - v[1], p[2] - v[2] >>

\* Grid(width, height) followed by wall_rect(0, 0, width, height).
wall_rect(w, h) ==
    [c \in Cells(w, h) |-> IF OnRing(w, h, c) THEN "wall" ELSE "none"]

\* put_obj for each position of a list, in order: the last placement wins.
RECURSIVE put_objs(_, _, _)
put_objs(g, positions, tag) ==
    IF positions = << >> THEN g
    ELSE put_objs([g EXCEPT ![Head(positions)] = tag], Tail(positions), tag)

\* range(a, b): the positions (x, a), (x, a+1), ..., (x, b-1).
RECURSIVE ColumnUp(_, _, _)
ColumnUp(x, a, b) ==
    IF a >= b THEN << >> ELSE << << x, a >> >> \o ColumnUp(x, a + 1, b)

\* range(a, b, -1): the positions (x, a), (x, a-1), ..., (x, b+1).
RECURSIVE ColumnDown(_, _, _)
ColumnDown(x, a, b) ==
    IF a <= b THEN << >> ELSE << << x, a >> >> \o ColumnDown(x, a - 1, b)

default_lava_positions(h) ==
    ColumnUp(1, 1, h - 1) \o ColumnDown(3, h - 3, h - 8)
        \o << << 6, h - 5 >>, << 6, h - 6 >> >>

default_spiky_positions(h) == ColumnUp(2, 1, h - 2)

SeqSet(s) == { s[i] : i \in 1 .. Len(s) }

\* self.lava_positions and self.spiky_positions as __init__ stores them.
temp_lava_positions(h, lava) ==
    IF lava = None THEN Some(default_lava_positions(h)) ELSE lava

temp_spiky_positions(h, active, spiky) ==
    IF active /\ spiky = None THEN Some(default_spiky_positions(h)) ELSE spiky

\* The placements with the goals first: walls, goals, lava, spiky tiles.
gen_grid_goals_first(w, h, lava, active, spiky, goals) ==
    LET g0 == put_objs(wall_rect(w, h), goals, "goal")
        g1 == put_objs(g0, lava.list, "lava")
    IN  IF active THEN put_objs(g1, spiky.list, "spiky_floor") ELSE g1

\* _gen_grid: walls, then lava, then spiky tiles when active, then goals.
gen_grid(w, h, lava, active, spiky, goals) ==
    LET g0 == wall_rect(w, h)
        g1 == put_objs(g0, lava.list, "lava")
        g2 == IF active THEN put_objs(g1, spiky.list, "spiky_floor") ELSE g1
    IN  put_objs(g2, goals, "goal")

\* _gen_grid: Grid.set_show_agent_dir(False) unless show_agent_dir is set.
\* The call is made on the class, so the flag is one for every grid; flag is
\* its value before the call.  No code of risky.py switches it on, so it is
\* on before the first environment is built.
set_show_agent_dir(flag, show) == IF ~show THEN FALSE ELSE flag

\* No second environment has been constructed.
NoInstance == [built |-> FALSE]

\* The agent placed on cell (1, 1), whatever the configured start.
place_agent_at_origin(start) == [pos |-> << 1, 1 >>, dir |-> 3]

\* _gen_grid: the agent on its start position, looking up.
place_agent(start) == [pos |-> start, dir |-> 3]

-----------------------------------------------------------------------------
(* Construction: RiskyPathEnv.__init__ and the first _gen_grid.             *)

\* The arguments construction is tried with: square rooms (as the default,
\* 11 x 11), two start positions, the default goal list and one with a second
\* goal on the wall ring, the default and one explicit lava list, spiky tiles
\* off, at their default positions and at explicit ones.
SizeChoices == { << n, n >> : n \in MinSize .. MaxSize }

StartChoices(w, h) == { << 2, 2 >>, << w - 2, 2 >> }

GoalChoices == { << << 1, 3 >> >>, << << 1, 3 >>, << 0, 2 >> >> }

LavaChoices == { None, Some(<< << 3, 2 >>, << 1, 3 >> >>) }

SpikyChoices ==
    { [active |-> FALSE, positions |-> None],
      [active |-> TRUE, positions |-> None],
      [active |-> TRUE, positions |-> Some(<< << 2, 0 >>, << 2, 3 >> >>)] }

RewardChoices ==
    { DEFAULT_REWARDS } \cup { DistinctRewards(a) : a \in BOOLEAN }

SlipChoices == { 0, 50 }

\* The values np_random.random() is drawn from, as percentages.
RndVals == { 0, 99 }

\* The sanity checks of __init__.
SanityChecks(w, h, start, goals, lava, active, rs, slip) ==
    /\ w >= MinSize /\ h >= MinSize
    /\ DOMAIN rs = DOMAIN DEFAULT_REWARDS
    /\ slip >= 0 /\ slip < 100
    /\ start[1] > 1 /\ start[1] < w - 1
    /\ start[2] > 1 /\ start[2] < h - 1
    /\ start \notin SeqSet(goals)
    /\ start \notin SeqSet(temp_lava_positions(h, lava).list)
    /\ (rs.risky_tile_reward = 0 \/ active)

\* Grid.set asserts that the coordinates lie inside the grid.
PlacementsInGrid(w, h, lava, active, spiky, goals) ==
    /\ \A p \in SeqSet(lava.list) : InGrid(w, h, p)
    /\ active => \A p \in SeqSet(spiky.list) : InGrid(w, h, p)
    /\ \A p \in SeqSet(goals) : InGrid(w, h, p)

\* Construction returns an environment instead of raising.
Accepted(w, h, start, goals, lava, active, spiky, rs, slip) ==
    /\ SanityChecks(w, h, start, goals, lava, active, rs, slip)
    /\ PlacementsInGrid(w, h, temp_lava_positions(h, lava), active,
                        temp_spiky_positions(h, active, spiky), goals)

Init ==
    \E size \in SizeChoices, goals \in GoalChoices, lava \in LavaChoices,
       sp \in SpikyChoices, rs \in RewardChoices, slip \in SlipChoices,
       rebound \in BOOLEAN :
      \E w \in { size[1] }, h \in { size[2] } :
      \E start \in StartChoices(w, h) :
        /\ Accepted(w, h, start, goals, lava, sp.active, sp.positions, rs, slip)
        /\ width = w /\ height = h
        /\ max_steps = MaxSteps
        /\ agent_start_pos = start
        /\ slip_proba = slip
        /\ reward_spec = rs
        /\ goal_positions = goals
        /\ lava_positions = temp_lava_positions(h, lava)
        /\ spiky_active = sp.active
        /\ spiky_positions = temp_spiky_positions(h, sp.active, sp.positions)
        /\ wall_rebound = rebound
        /\ grid = gen_grid(w, h, temp_lava_positions(h, lava), sp.active,
                           temp_spiky_positions(h, sp.active, sp.positions),
                           goals)
        /\ agent_pos = place_agent(start).pos
        /\ agent_dir = place_agent(start).dir
        /\ step_count = 0
        /\ show_agent_dir = FALSE
        /\ Grid_show_agent_dir = set_show_agent_dir(TRUE, FALSE)
        /\ other = NoInstance
        /\ outcome = [call |-> "init", status |-> "ok"]

-----------------------------------------------------------------------------
(* Construction as a call: the arguments are drawn first, valid or not, and  *)
(* RiskyPathEnv(...) is then applied to them.  Before the call the variables *)
(* hold the arguments and there is no grid.  Every argument is an integer    *)
(* tuple, list or number of the right type.                                  *)

ArgSizes == { << n, n >> : n \in (MinSize - 1) .. MaxSize }

ArgStarts(w, h) ==
    { << 0, 2 >>, << 1, 2 >>, << 2, 1 >>, << 2, 2 >>, << 1, 3 >>, << 3, 2 >>,
      << w - 2, h - 2 >>, << w - 1, 2 >> }

ArgSlips == { 0, 50, 100 }

\* Goal lists, one of them with goals that are also lava and spiky positions
\* and one goal on the outer ring.
ArgGoals == GoalChoices \cup { << << 1, 3 >>, << 2, 3 >>, << 0, 2 >> >> }

ConstructInit ==
    \E size \in ArgSizes, goals \in ArgGoals, lava \in LavaChoices,
       sp \in SpikyChoices, rs \in RewardChoices, slip \in ArgSlips,
       rebound \in BOOLEAN :
      \E start \in ArgStarts(size[1], size[2]) :
        /\ width = size[1] /\ height = size[2]
        /\ max_steps = MaxSteps
        /\ agent_start_pos = start
        /\ slip_proba = slip
        /\ reward_spec = rs
        /\ goal_positions = goals
        /\ lava_positions = lava
        /\ spiky_active = sp.active
        /\ spiky_positions = sp.positions
        /\ wall_rebound = rebound
        /\ grid = << >>
        /\ agent_pos = start
        /\ agent_dir = 3
        /\ step_count = 0
        /\ show_agent_dir = FALSE
        /\ Grid_show_agent_dir = TRUE
        /\ other = NoInstance
        /\ outcome = [call |-> "args", status |-> "pending"]

\* RiskyPathEnv(...): an environment, or the AssertionError of a sanity check
\* or of a placement outside the grid.
Construct ==
    /\ outcome.call = "args"
    /\ UNCHANGED << width, height, max_steps, agent_start_pos, goal_positions,
                    spiky_active, reward_spec, slip_proba, wall_rebound,
                    show_agent_dir, other, agent_dir, step_count >>
    /\ IF Accepted(width, height, agent_start_pos, goal_positions,
                   lava_positions, spiky_active, spiky_positions,
                   reward_spec, slip_proba)
       THEN /\ lava_positions' = temp_lava_positions(height, lava_positions)
            /\ spiky_positions' =
                 temp_spiky_positions(height, spiky_active, spiky_positions)
            /\ grid' = gen_grid(width, height,
                                temp_lava_positions(height, lava_positions),
                                spiky_active,
                                temp_spiky_positions(height, spiky_active,
                                                     spiky_positions),
                                goal_positions)
            /\ agent_pos' = place_agent(agent_start_pos).pos
            /\ Grid_show_agent_dir' =
                 set_show_agent_dir(Grid_show_agent_dir, show_agent_dir)
            /\ outcome' = [call |-> "init", status |-> "ok"]
       ELSE /\ UNCHANGED << lava_positions, spiky_positions, grid, agent_pos,
                            Grid_show_agent_dir >>
            /\ outcome' = [call |-> "init", status |-> "AssertionError"]

ConstructNext == Construct

ConstructSpec == ConstructInit /\ [][ConstructNext]_vars

-----------------------------------------------------------------------------
(* RiskyPathEnv.step.                                                        *)

\* An agent that can move from every cell.
can_move_anywhere(g, pos) == TRUE

\* The property can_move: the agent is not on a goal or lava cell.
can_move(g, pos) == g[pos] = "none" \/ g[pos] \notin {"goal", "lava"}

\* The action's own number taken for the direction.
ActionDirAsAction(a) == a

\* The new agent_dir for an action.
ActionDir(a) ==
    CASE a = west -> 2
      [] a = north -> 3
      [] a = east -> 0
      [] a = south -> 1

\* MiniGridEnv.front_pos: agent_pos + DIR_TO_VEC[agent_dir].
front_pos(pos, dir) == Add(pos, DIR_TO_VEC(dir))

\* The slip test; it draws only when slipping is possible.
slip_now(proba, rnd) == IF proba > 0 THEN rnd < proba ELSE FALSE

\* The calls on np_random a step makes, in order.  A slip test drawn also
\* when slipping is switched off:
SlipDrawsAlways(proba) == << "random" >>

\* np_random.random() is called for the slip test only when slip_proba > 0.
SlipDraws(proba) == IF proba > 0 THEN << "random" >> ELSE << >>

\* np.flip of a direction vector.
flip(v) == << v[2], v[1] >>

\* The candidates with the two sides taken from the cell in front instead of
\* the agent's own cell.
tmp_rebound_slip_from_front(pos, dir) ==
    << Sub(pos, DIR_TO_VEC(dir)),
       Add(front_pos(pos, dir), flip(DIR_TO_VEC(dir))),
       Sub(front_pos(pos, dir), flip(DIR_TO_VEC(dir))),
       front_pos(pos, dir) >>

\* tmp_rebound_slip: behind, the two sides, in front.
tmp_rebound_slip(pos, dir) ==
    << Sub(pos, DIR_TO_VEC(dir)),
       Add(pos, flip(DIR_TO_VEC(dir))),
       Sub(pos, flip(DIR_TO_VEC(dir))),
       front_pos(pos, dir) >>

\* rebound_slip_options: the candidates the agent can be on.
rebound_slip_options(g, candidates) ==
    SelectSeq(candidates, LAMBDA c : Open(g[c]))

\* The movement logic of step() for an agent that can move: the facing, the
\* position, whether it slipped, the draws consumed, and whether Grid.get
\* raised on coordinates outside the grid.
Movement(w, h, g, pos, a, proba, rebound, rnd, idx) ==
    LET dir == ActionDir(a)
        fwd == front_pos(pos, dir)
        slipped == slip_now(proba, rnd)
        cands == tmp_rebound_slip(pos, dir)
        stay == [raised |-> FALSE, pos |-> pos, dir |-> dir,
                 slipped |-> slipped, draws |-> SlipDraws(proba)]
    IN  IF ~InGrid(w, h, fwd)
        THEN [stay EXCEPT !.raised = TRUE, !.draws = << >>]
        ELSE IF Open(g[fwd]) /\ ~slipped
        THEN [stay EXCEPT !.pos = fwd]
        ELSE IF rebound \/ slipped
        THEN IF \E i \in 1 .. 4 : ~InGrid(w, h, cands[i])
             THEN [stay EXCEPT !.raised = TRUE]
             ELSE LET options == rebound_slip_options(g, cands)
                  IN  IF Len(options) > 0
                      THEN [stay EXCEPT
                              !.pos = options[idx + 1],
                              !.draws = SlipDraws(proba) \o << "choice" >>]
                      ELSE stay
        ELSE stay

\* The reward of a step that ends on a cell tagged tag.
StepReward(rs, tag) ==
    rs.step_penalty
    + (IF tag = "goal"
       THEN IF rs.absorbing_states THEN rs.absorbing_reward_goal
            ELSE rs.goal_reward
       ELSE 0)
    + (IF tag = "lava"
       THEN IF rs.absorbing_states THEN rs.absorbing_reward_lava
            ELSE rs.lava_reward
       ELSE 0)
    + (IF tag = "spiky_floor" THEN rs.risky_tile_reward ELSE 0)

\* done, as the terrain checks and the max_steps cutoff set it.
StepDone(rs, tag, count, limit) ==
    \/ tag \in {"goal", "lava"} /\ ~rs.absorbing_states
    \/ count >= limit

\* The info dictionary.
StepInfo(pos, previous, dir, slipped, tag) ==
    [agent_pos |-> pos,
     previous_pos |-> previous,
     actual_movement_vec |-> Sub(pos, previous),
     intended_movement_vec |-> DIR_TO_VEC(dir),
     slipped |-> slipped,
     current_cell_type |-> tag]

\* The values np_random.random() can return when step() draws one.
SlipRange(proba) == IF proba > 0 THEN RndVals ELSE { 0 }

\* The values np_random.choice(len(rebound_slip_options)) can return when
\* step() draws one.
ChoiceRange(w, h, g, pos, a, proba, rebound, rnd) ==
    LET m == Movement(w, h, g, pos, a, proba, rebound, rnd, 0)
    IN  IF can_move(g, pos) /\ ~m.raised /\ Len(m.draws) > Len(SlipDraws(proba))
        THEN 0 .. Len(rebound_slip_options(
                        g, tmp_rebound_slip(pos, ActionDir(a)))) - 1
        ELSE { 0 }

\* step(a) with the random draws rnd (slip test) and idx (destination).  The
\* explored runs make one call more after the max_steps-th.
Step(a, rnd, idx) ==
    /\ step_count <= max_steps
    /\ step_count' = step_count + 1
    /\ UNCHANGED << grid, cfgvars, Grid_show_agent_dir, other >>
    /\ IF can_move(grid, agent_pos)
       THEN \E m \in { Movement(width, height, grid, agent_pos, a,
                                 slip_proba, wall_rebound, rnd, idx) } :
              LET tag == grid[m.pos]
              IN
                /\ agent_dir' = m.dir
                /\ agent_pos' = m.pos
                /\ outcome' =
                     IF m.raised
                     THEN [call |-> "step", status |-> "AssertionError",
                           action |-> a, from |-> agent_pos,
                           draws |-> m.draws]
                     ELSE [call |-> "step", status |-> "ok",
                           action |-> a, from |-> agent_pos,
                           draws |-> m.draws,
                           reward |-> StepReward(reward_spec, tag),
                           done |-> StepDone(reward_spec, tag,
                                             step_count + 1, max_steps),
                           info |-> StepInfo(m.pos, agent_pos, m.dir,
                                             m.slipped, tag)]
       ELSE \* slip_now is read for the info dictionary but was never bound
            /\ UNCHANGED << agent_pos, agent_dir >>
            /\ outcome' = [call |-> "step", status |-> "UnboundLocalError",
                           action |-> a, from |-> agent_pos,
                           draws |-> << >>]

\* MiniGridEnv.reset: _gen_grid again, and the step counter zeroed.
Reset ==
    /\ grid' = gen_grid(width, height, lava_positions, spiky_active,
                        spiky_positions, goal_positions)
    /\ agent_pos' = place_agent(agent_start_pos).pos
    /\ agent_dir' = place_agent(agent_start_pos).dir
    /\ step_count' = 0
    /\ Grid_show_agent_dir' =
         set_show_agent_dir(Grid_show_agent_dir, show_agent_dir)
    /\ outcome' = [call |-> "reset", status |-> "ok", from |-> agent_pos]
    /\ UNCHANGED << cfgvars, other >>

-----------------------------------------------------------------------------
(* RiskyPathEnv.tensor_obs.                                                  *)

\* The number of channels tensor_observation_space declares.
Channels(active) == IF active THEN 5 ELSE 4

\* The tag tensor_obs records in a terrain channel.
ChannelTag(k) ==
    CASE k = 1 -> "wall"
      [] k = 2 -> "lava"
      [] k = 3 -> "goal"
      [] k = 4 -> "spiky_floor"

\* The tensor with the agent's mark written at [agent_y, agent_x].
tensor_obs_swapped(w, h, g, pos, active) ==
    [e \in Cells(w, h) \X (0 .. Channels(active) - 1) |->
       IF e[2] = 0
       THEN IF e[1] = << pos[2], pos[1] >> THEN 1 ELSE 0
       ELSE IF g[e[1]] = ChannelTag(e[2]) THEN 1 ELSE 0]

\* tensor_obs(): entry <<cell, channel>>; channel 0 agent, 1 wall, 2 lava,
\* 3 goal, 4 spiky floor.
tensor_obs(w, h, g, pos, active) ==
    [e \in Cells(w, h) \X (0 .. Channels(active) - 1) |->
       IF e[2] = 0
       THEN IF e[1] = pos THEN 1 ELSE 0
       ELSE IF g[e[1]] = ChannelTag(e[2]) THEN 1 ELSE 0]

Next ==
    \/ \E a \in Actions :
         \E rnd \in SlipRange(slip_proba) :
           \E idx \in ChoiceRange(width, height, grid, agent_pos, a,
                                  slip_proba, wall_rebound, rnd) :
             Step(a, rnd, idx)
    \/ Reset

Spec == Init /\ [][Next]_vars

-----------------------------------------------------------------------------
(* Two environments in one process.  The first is the one of the variables   *)
(* above; the second, other, is a 6 x 6 room with an explicit lava list, no  *)
(* spiky tiles, no slip and no rebound.  Each is constructed, stepped and    *)
(* reset on its own; the calls interleave.                                   *)

MaxOtherSteps == 2      \* the steps explored on the second environment

OtherStart == << 2, 2 >>

OtherGrid ==
    gen_grid(MinSize, MinSize, Some(<< << 3, 2 >>, << 1, 3 >> >>), FALSE,
             None, << << 1, 3 >> >>)

TwoInit ==
    \E show \in BOOLEAN :
      /\ width = MinSize /\ height = MinSize
      /\ max_steps = MaxSteps
      /\ agent_start_pos = << 2, 2 >>
      /\ slip_proba = 0
      /\ reward_spec = DEFAULT_REWARDS
      /\ goal_positions = << << 1, 3 >> >>
      /\ lava_positions = Some(<< << 3, 2 >>, << 1, 3 >> >>)
      /\ spiky_active = FALSE
      /\ spiky_positions = None
      /\ wall_rebound = FALSE
      /\ grid = gen_grid(MinSize, MinSize, Some(<< << 3, 2 >>, << 1, 3 >> >>),
                         FALSE, None, << << 1, 3 >> >>)
      /\ agent_pos = place_agent(<< 2, 2 >>).pos
      /\ agent_dir = place_agent(<< 2, 2 >>).dir
      /\ step_count = 0
      /\ show_agent_dir = show
      /\ Grid_show_agent_dir = set_show_agent_dir(TRUE, show)
      /\ other = NoInstance
      /\ outcome = [call |-> "init", status |-> "ok"]

\* The variables of the first environment.
selfvars == << grid, agent_pos, agent_dir, step_count, cfgvars, outcome >>

\* RiskyPathEnv(show_agent_dir=show) for the second environment.
OtherConstruct(show) ==
    /\ ~other.built
    /\ other' = [built |-> TRUE, show_agent_dir |-> show, grid |-> OtherGrid,
                 agent_pos |-> place_agent(OtherStart).pos,
                 agent_dir |-> place_agent(OtherStart).dir,
                 step_count |-> 0]
    /\ Grid_show_agent_dir' = set_show_agent_dir(Grid_show_agent_dir, show)
    /\ UNCHANGED selfvars

\* step(a) on the second environment.
OtherStep(a) ==
    /\ other.built
    /\ other.step_count < MaxOtherSteps
    /\ IF can_move(other.grid, other.agent_pos)
       THEN \E m \in { Movement(MinSize, MinSize, other.grid, other.agent_pos,
                                 a, 0, FALSE, 0, 0) } :
              other' = [other EXCEPT !.agent_pos = m.pos, !.agent_dir = m.dir,
                                     !.step_count = @ + 1]
       ELSE other' = [other EXCEPT !.step_count = @ + 1]
    /\ UNCHANGED << selfvars, Grid_show_agent_dir >>

\* reset() on the second environment.
OtherReset ==
    /\ other.built
    /\ other' = [other EXCEPT !.grid = OtherGrid,
                              !.agent_pos = place_agent(OtherStart).pos,
                              !.agent_dir = place_agent(OtherStart).dir,
                              !.step_count = 0]
    /\ Grid_show_agent_dir' =
         set_show_agent_dir(Grid_show_agent_dir, other.show_agent_dir)
    /\ UNCHANGED selfvars

TwoNext ==
    \/ Next
    \/ \E show \in BOOLEAN : OtherConstruct(show)
    \/ \E a \in Actions : OtherStep(a)
    \/ OtherReset

TwoSpec == TwoInit /\ [][TwoNext]_vars

-----------------------------------------------------------------------------
(* The claims.  They speak of the last call through outcome, and of cells by *)
(* their tags; the unit vector of an action is stated here on its own.       *)

IsStep == outcome.call = "step"
Returned == outcome.status = "ok"

Toward(a) ==
    CASE a = west -> << -1, 0 >>
      [] a = north -> << 0, -1 >>
      [] a = east -> << 1, 0 >>
      [] a = south -> << 0, 1 >>

Terminal(tag) == tag \in {"goal", "lava"}

Interior(p) ==
    p[1] > 0 /\ p[1] < width - 1 /\ p[2] > 0 /\ p[2] < height - 1

\* C1: with absorbing states, a step() that leaves the agent on a goal (or
\* lava) cell before the max_steps cutoff returns normally, with done = false
\* and the absorbing goal (or lava) reward, which step() adds to the step
\* penalty it applies on every step.
C1_AbsorbingStepsReturn ==
    (/\ IsStep
     /\ reward_spec.absorbing_states
     /\ Terminal(grid[agent_pos])
     /\ step_count < max_steps)
    => /\ Returned
       /\ outcome.done = FALSE
       /\ outcome.reward = reward_spec.step_penalty +
            (IF grid[agent_pos] = "goal"
             THEN reward_spec.absorbing_reward_goal
             ELSE reward_spec.absorbing_reward_lava)

\* C2: after any sequence of step() calls the agent is strictly inside the
\* outer ring: 0 < x < width - 1 and 0 < y < height - 1.
C2_AgentInsideRing == Interior(agent_pos)

\* C3: step() is total: every call returns an outcome whose diagnostic fields
\* are all defined, and never ends in an error.
C3_StepIsTotal ==
    IsStep =>
      /\ Returned
      /\ DOMAIN outcome.info =
           {"agent_pos", "previous_pos", "actual_movement_vec",
            "intended_movement_vec", "slipped", "current_cell_type"}

\* C4: without absorbing states, a step() whose resulting agent cell is a goal
\* (or lava) cell returns done = true in that step, reward = goal (or lava)
\* reward + step penalty, and reports the cell's tag in its diagnostics.
C4_TerminalStepReturnsDone ==
    (/\ IsStep
     /\ ~reward_spec.absorbing_states
     /\ Terminal(grid[agent_pos]))
    => /\ Returned
       /\ outcome.done = TRUE
       /\ outcome.reward = reward_spec.step_penalty +
            (IF grid[agent_pos] = "goal"
             THEN reward_spec.goal_reward
             ELSE reward_spec.lava_reward)
       /\ outcome.info.current_cell_type = grid[agent_pos]

\* C5: the step() call that makes the counter reach max_steps returns
\* done = true, and an earlier step that does not end on a terminating goal
\* or lava cell returns done = false.
C5_EpisodeEndsAtMaxSteps ==
    IsStep =>
      /\ step_count = max_steps => Returned /\ outcome.done = TRUE
      /\ (/\ step_count < max_steps
          /\ ~(Terminal(grid[agent_pos]) /\ ~reward_spec.absorbing_states))
         => Returned /\ outcome.done = FALSE

\* The cell the last step() call was directed at.
Target == Add(outcome.from, Toward(outcome.action))

TargetInGrid == InGrid(width, height, Target)

\* C6 as stated: with slip probability 0 and wall_rebound disabled, a step
\* toward an open cell ends on that cell, a step toward a wall leaves the
\* position unchanged, and neither consumes a random draw.
C6_PlainMoveFromAnyCell ==
    (IsStep /\ slip_proba = 0 /\ ~wall_rebound /\ TargetInGrid)
    => /\ grid[Target] # "wall" => agent_pos = Target
       /\ grid[Target] = "wall" => agent_pos = outcome.from
       /\ outcome.draws = << >>

\* C6 amended: the same, for a step that starts on a cell that is neither
\* goal nor lava.
C6_PlainMoveWhenNotFrozen ==
    (/\ IsStep /\ slip_proba = 0 /\ ~wall_rebound /\ TargetInGrid
     /\ ~Terminal(grid[outcome.from]))
    => /\ grid[Target] # "wall" => agent_pos = Target
       /\ grid[Target] = "wall" => agent_pos = outcome.from
       /\ outcome.draws = << >>

C6_Witness ==
    /\ IsStep /\ slip_proba = 0 /\ ~wall_rebound /\ TargetInGrid
    /\ ~Terminal(grid[outcome.from])
    /\ grid[Target] = "wall"
    /\ agent_pos = outcome.from
    /\ outcome.draws = << >>

\* The four cells next to p.
Neighbours(p) == { Add(p, Toward(a)) : a \in Actions }

\* The neighbours of p the agent can be on.
OpenNeighbours(p) ==
    { c \in Neighbours(p) : InGrid(width, height, c) /\ grid[c] # "wall" }

\* C7: with wall_rebound enabled and no slip, a step into a blocked cell ends
\* on a member of the filtered candidate set (so on the single candidate when
\* there is exactly one), and leaves the position unchanged when the set is
\* empty.
C7_ReboundLandsOnCandidate ==
    (/\ IsStep /\ wall_rebound /\ slip_proba = 0 /\ TargetInGrid
     /\ ~Terminal(grid[outcome.from])
     /\ grid[Target] = "wall")
    => /\ OpenNeighbours(outcome.from) # {}
            => agent_pos \in OpenNeighbours(outcome.from)
       /\ OpenNeighbours(outcome.from) = {} => agent_pos = outcome.from

\* C8: every cell of the outer ring carries the wall tag.
C8_RingIsWall ==
    \A c \in Cells(width, height) :
      OnRing(width, height, c) => grid[c] = "wall"

\* C9: the agent is never outside the grid bounds and never on a cell tagged
\* wall.
C9_AgentInGridOffWalls ==
    /\ InGrid(width, height, agent_pos)
    /\ grid[agent_pos] # "wall"

C9_Witness ==
    /\ IsStep /\ TargetInGrid
    /\ ~Terminal(grid[outcome.from])
    /\ grid[Target] = "wall"
    /\ InGrid(width, height, agent_pos)
    /\ grid[agent_pos] # "wall"

\* The tensor observation of the current state, and the one of the state
\* construction left.
Obs == tensor_obs(width, height, grid, agent_pos, spiky_active)

InitialGrid ==
    gen_grid(width, height, lava_positions, spiky_active, spiky_positions,
             goal_positions)

InitialObs(g0) ==
    tensor_obs(width, height, g0, agent_start_pos, spiky_active)

\* C10: every entry of the tensor observation is 0 or 1, the agent channel is
\* 1 on exactly one cell, the agent's position, and the wall, lava, goal and
\* spiky channels are those of the initial observation.
C10_TensorObservation ==
    \A t \in { Obs }, g0 \in { InitialGrid } :
     \A t0 \in { InitialObs(g0) } :
      /\ DOMAIN t = DOMAIN t0
      /\ \A e \in DOMAIN t :
           /\ t[e] \in {0, 1}
           /\ e[2] = 0 => (t[e] = 1 <=> e[1] = agent_pos)
           /\ e[2] # 0 => t[e] = t0[e]

C10_Witness ==
    /\ IsStep /\ Returned
    /\ agent_pos # outcome.from
    /\ \A t \in { Obs } :
         t[<< agent_pos, 0 >>] = 1 /\ t[<< outcome.from, 0 >>] = 0

\* The documented validations other than the start position's: the
\* dimensions, the slip probability and the risky reward.
OtherArgumentsValid ==
    /\ width >= MinSize /\ height >= MinSize
    /\ slip_proba >= 0 /\ slip_proba < 100
    /\ DOMAIN reward_spec = DOMAIN DEFAULT_REWARDS
    /\ (reward_spec.risky_tile_reward = 0 \/ spiky_active)

\* C11: construction accepts a start position exactly when it is strictly
\* interior (0 < x < width - 1 and 0 < y < height - 1) and neither a goal nor
\* a lava position; every other start position makes construction fail.
C11_StartAcceptedIffInterior ==
    (outcome.call = "init" /\ OtherArgumentsValid)
    => (outcome.status = "ok"
        <=> /\ Interior(agent_start_pos)
            /\ agent_start_pos \notin SeqSet(goal_positions)
            /\ agent_start_pos \notin
                 SeqSet(temp_lava_positions(height, lava_positions).list))

\* C12: reset() after any sequence of step() calls puts the agent back on the
\* configured start position with the step counter at 0, and no call, reset()
\* included, changes the terrain tag of a cell, so every tag stays what it
\* was right after construction.
C12_ResetRestoresStart ==
    [][/\ grid' = grid
       /\ outcome'.call = "reset"
            => agent_pos' = agent_start_pos /\ step_count' = 0]_vars

C12_Witness ==
    /\ outcome.call = "reset"
    /\ outcome.from # agent_start_pos
    /\ agent_pos = agent_start_pos
    /\ step_count = 0
    /\ grid = InitialGrid

\* C13: a step() whose resulting agent cell is a risky tile returns reward =
\* step penalty + risky-tile reward and sets done only when the step count
\* has reached max_steps, with absorbing states or without; a step whose
\* resulting cell is empty returns reward = step penalty exactly.
C13_RiskyAndEmptyRewards ==
    IsStep =>
      /\ grid[agent_pos] = "spiky_floor"
           => /\ Returned
              /\ outcome.reward =
                   reward_spec.step_penalty + reward_spec.risky_tile_reward
              /\ outcome.done = (step_count >= max_steps)
      /\ grid[agent_pos] = "none"
           => /\ Returned
              /\ outcome.reward = reward_spec.step_penalty

\* C14: two environments share no mutable state: a call on one of them
\* changes nothing of the other, neither its grid, agent state, episode state
\* and configuration nor any state its behaviour is read from, so each runs
\* as if it were alone.
C14_InstancesIndependent ==
    [][/\ other' # other
            => UNCHANGED << selfvars, Grid_show_agent_dir >>
       /\ outcome' # outcome
            => UNCHANGED << other, Grid_show_agent_dir >>]_vars

\* C15: on every step() the agent's facing is set to the direction of the
\* requested action, also when the agent stands on a goal or lava cell and
\* cannot move, and the intended displacement of the diagnostics is the unit
\* vector of the requested action.
C15_FacingFollowsAction ==
    IsStep =>
      /\ DIR_TO_VEC(agent_dir) = Toward(outcome.action)
      /\ Returned =>
           outcome.info.intended_movement_vec = Toward(outcome.action)

\* The last step() took the rebound/slip branch: it slipped, or wall_rebound
\* is on and the cell in front is blocked.
ReboundOrSlip ==
    outcome.info.slipped \/ (wall_rebound /\ grid[Target] = "wall")

\* C16 as stated: each step() makes exactly one draw for the slip test, and
\* exactly one further draw, the destination choice, if and only if the
\* filtered rebound/slip destination set has more than one member; the slip
\* draw comes first and there are no other draws.
C16_OneSlipDrawPerStep ==
    IsStep =>
      outcome.draws =
        << "random" >> \o
        (IF /\ Returned /\ ReboundOrSlip
            /\ Cardinality(OpenNeighbours(outcome.from)) > 1
         THEN << "choice" >> ELSE << >>)

\* C16 amended: a step() draws only when the agent can move and the cell in
\* front lies in the grid: the slip test exactly when slip_proba > 0, then
\* the destination choice exactly when the step returns from the rebound/slip
\* branch with a non-empty filtered destination set.
C16_DrawsAsCoded ==
    IsStep =>
      outcome.draws =
        (IF /\ slip_proba > 0 /\ ~Terminal(grid[outcome.from])
            /\ TargetInGrid
         THEN << "random" >> ELSE << >>)
        \o
        (IF /\ Returned /\ ReboundOrSlip
            /\ OpenNeighbours(outcome.from) # {}
         THEN << "choice" >> ELSE << >>)

C16_Witness ==
    /\ IsStep /\ Returned
    /\ outcome.info.slipped
    /\ outcome.draws = << "random", "choice" >>

\* C17: once the agent is on a goal or lava cell no step() changes its
\* position, whatever the action, the slip outcome and wall_rebound, until
\* reset(); an agent on a risky tile is not frozen: a step from a risky tile
\* toward an open cell, with no slip, moves the agent there.
C17_FrozenOnGoalAndLavaOnly ==
    IsStep =>
      /\ Terminal(grid[outcome.from]) => agent_pos = outcome.from
      /\ (/\ grid[outcome.from] = "spiky_floor"
          /\ TargetInGrid
          /\ slip_proba = 0 \/ (Returned /\ ~outcome.info.slipped))
         => (grid[Target] # "wall" => agent_pos = Target)

C17_Witness ==
    /\ IsStep
    /\ Terminal(grid[outcome.from])
    /\ agent_pos = outcome.from
    /\ slip_proba > 0 /\ wall_rebound

\* C18: whenever a step() reports a slip, the realized displacement of the
\* diagnostics differs from the intended one: a slipping agent never ends on
\* the cell it intended to move to.
C18_SlipDiverges ==
    (IsStep /\ Returned /\ outcome.info.slipped)
    => outcome.info.actual_movement_vec # outcome.info.intended_movement_vec

\* The tag the placement order walls, lava, risky tiles, goals leaves on cell
\* c when the last placement wins.
LastPlaced(c) ==
    IF c \in SeqSet(goal_positions) THEN "goal"
    ELSE IF spiky_active /\ c \in SeqSet(spiky_positions.list)
    THEN "spiky_floor"
    ELSE IF c \in SeqSet(lava_positions.list) THEN "lava"
    ELSE IF OnRing(width, height, c) THEN "wall"
    ELSE "none"

\* C19: construction places walls, lava, risky tiles and goals in this order
\* and the last placement wins: every configured goal position carries the
\* goal tag, also when it is a lava or risky position too or lies on the
\* wall ring, and every cell carries exactly one tag.
C19_GoalsPlacedLast ==
    (outcome.call = "init" /\ Returned)
    => /\ \A p \in SeqSet(goal_positions) : grid[p] = "goal"
       /\ DOMAIN grid = Cells(width, height)
       /\ \A c \in Cells(width, height) : grid[c] = LastPlaced(c)

C19_Witness ==
    /\ outcome.call = "init" /\ Returned
    /\ \E p \in SeqSet(goal_positions) :
         p \in SeqSet(lava_positions.list) /\ grid[p] = "goal"
    /\ \E p \in SeqSet(goal_positions) :
         /\ spiky_active /\ p \in SeqSet(spiky_positions.list)
         /\ grid[p] = "goal"
    /\ \E p \in SeqSet(goal_positions) :
         OnRing(width, height, p) /\ grid[p] = "goal"

\* |x| + |y| of a vector.
Manhattan(v) ==
    (IF v[1] < 0 THEN -v[1] ELSE v[1]) + (IF v[2] < 0 THEN -v[2] ELSE v[2])

\* C20: every step() changes the agent position by the zero vector or by one
\* unit cardinal vector, and the realized displacement of the diagnostics is
\* the resulting position minus the previous one, under every combination of
\* slip and wall_rebound.
C20_UnitDisplacement ==
    IsStep =>
      /\ Manhattan(<< agent_pos[1] - outcome.from[1],
                      agent_pos[2] - outcome.from[2] >>) <= 1
      /\ Returned =>
           /\ outcome.info.previous_pos = outcome.from
           /\ outcome.info.agent_pos = agent_pos
           /\ outcome.info.actual_movement_vec =
                << agent_pos[1] - outcome.from[1],
                   agent_pos[2] - outcome.from[2] >>

C20_Witness ==
    /\ IsStep /\ Returned
    /\ outcome.info.slipped /\ wall_rebound
    /\ Manhattan(outcome.info.actual_movement_vec) = 1
    /\ outcome.info.actual_movement_vec # outcome.info.intended_movement_vec
    /\ agent_pos = Add(outcome.from, outcome.info.actual_movement_vec)

=============================================================================
